---- MODULE Spec2Model ----
(***************************************************************************)
(* Model of src/main.py: the /process-video endpoint (process_video) and   *)
(* the helpers it calls.  Every request is a run; runs interleave at the   *)
(* granularity of the remote calls they make (blob store, ffmpeg, label    *)
(* service, secret manager, commerce platform).                            *)
(*                                                                         *)
(* Strings the code manipulates character by character (file names) are    *)
(* sequences of one-character strings.  Non-ASCII literals of the source   *)
(* are transliterated.                                                     *)
(***************************************************************************)
EXTENDS Integers, Sequences, FiniteSets, TLC

\* ---------------------------------------------------------------- bounds
MaxRuns == 2
MaxLabelLen == 13
MaxTokenLen == 3

Runs == 1..MaxRuns

\* ------------------------------------------------------------- constants
BUCKET_ORIGINALS == "douga-auto-system-originals"
BUCKET_PROCESSED == "douga-auto-system-processed"

\* File names the trigger can carry ("a.mp4" and "a").
FileNames == { <<"a", ".", "m", "p", "4">>, <<"a">> }

\* Value of a local variable that was never bound.
Unbound == << >>

\* The trigger payload: the keys present in the JSON object and their values.
Payloads ==
    { [keys |-> ks,
       bucket |-> IF "bucket" \in ks THEN BUCKET_ORIGINALS ELSE "",
       name |-> IF "name" \in ks THEN n ELSE Unbound] :
         ks \in SUBSET {"bucket", "name"}, n \in FileNames }

NoData == [keys |-> {}, bucket |-> "", name |-> Unbound]

\* ------------------------------------------------------- pure functions

\* str.replace(pat, "") : left-to-right, non-overlapping removal of pat.
RECURSIVE RemoveAll(_, _)
RemoveAll(s, pat) ==
    IF Len(s) < Len(pat) THEN s
    ELSE IF SubSeq(s, 1, Len(pat)) = pat
         THEN RemoveAll(SubSeq(s, Len(pat) + 1, Len(s)), pat)
         ELSE <<s[1]>> \o RemoveAll(Tail(s), pat)

Mp4Suffix == <<".", "m", "p", "4">>

\* f"Tategata douga: {file_name.replace('.mp4', '')}"
Title(file_name) == <<"Tategata douga: ">> \o RemoveAll(file_name, Mp4Suffix)

\* blob.public_url of a blob of the processed bucket
PublicUrl(blob_name) ==
    <<"https://storage.googleapis.com/", BUCKET_PROCESSED, "/">> \o blob_name

\* f"gs://{bucket_name}/{file_name}"
GcsUri(bucket_name, file_name) == <<"gs://", bucket_name, "/">> \o file_name

\* ", ".join(ai_tags)
RECURSIVE JoinTags(_)
JoinTags(tags) ==
    IF tags = << >> THEN << >>
    ELSE IF Len(tags) = 1 THEN tags
    ELSE <<tags[1], ", ">> \o JoinTags(Tail(tags))

Range(s) == { s[i] : i \in 1..Len(s) }

\* The fixed fallback tag list (two Japanese words in the source).
FallbackTags == <<"douga", "kontentsu">>

TagLimit == 10

\* The loop of analyze_video_with_ai: keep the first occurrence of each label.
RECURSIVE DedupInto(_, _)
DedupInto(tags, labels) ==
    IF labels = << >> THEN tags
    ELSE DedupInto(IF labels[1] \in Range(tags) THEN tags
                   ELSE Append(tags, labels[1]), Tail(labels))

\* A variant of the slice that keeps everything.
FirstNUnbounded(s, n) == s

\* s[:n]
FirstN(s, n) == SubSeq(s, 1, IF Len(s) < n THEN Len(s) ELSE n)

\* What the label service can answer within a run (the empty
\* annotation_results case is covered where the function is called on its own).
LabelResults ==
    { [kind |-> "ok", labels |-> l] :
        l \in { <<"cat", "dog", "cat">>, <<"douga", "kontentsu">> } }
    \cup { [kind |-> k, labels |-> << >>] : k \in {"raise", "timeout"} }

\* A variant in which a failing label call propagates out of the function.
analyze_video_with_ai_raising(res) ==
    IF res.kind = "ok"
    THEN [raised |-> FALSE, tags |-> FirstN(DedupInto(<< >>, res.labels), TagLimit)]
    ELSE [raised |-> TRUE, tags |-> << >>]

\* analyze_video_with_ai: "empty" is annotation_results == [] (IndexError).
analyze_video_with_ai(res) ==
    IF res.kind = "ok"
    THEN [raised |-> FALSE, tags |-> FirstN(DedupInto(<< >>, res.labels), TagLimit)]
    ELSE [raised |-> FALSE, tags |-> FallbackTags]

\* A variant that reports success when ffmpeg exits non-zero.
add_watermark_lenient(o) ==
    IF o = "other_error" THEN "raise" ELSE "True"

\* add_watermark: only CalledProcessError is caught.
add_watermark(o) ==
    IF o = "ok" THEN "True"
    ELSE IF o = "called_process_error" THEN "False"
    ELSE "raise"

WatermarkOutcomes == {"ok", "called_process_error", "other_error"}

\* What the commerce platform can do with a create request: answer with a
\* status code, or the request raises (timeout, connection error) either
\* before (applied = FALSE) or after (applied = TRUE) the platform acted.
CreateOutcomes ==
    { [kind |-> "status", code |-> c, applied |-> (c = 201)] :
        c \in {201, 200, 422} }
    \cup { [kind |-> "exception", code |-> 0, applied |-> a] : a \in BOOLEAN }

\* A variant that takes every 2xx status for a creation.
create_product_any_2xx(o) ==
    IF o.kind = "status" /\ o.code >= 200 /\ o.code < 300 THEN "product" ELSE "None"

\* create_product: the product on status 201, None otherwise.
create_product(o) ==
    IF o.kind = "status" /\ o.code = 201 THEN "product" ELSE "None"

\* ------------------------------------------------------------ responses
NoResponse ==
    [code |-> 0, status |-> "", error |-> "",
     processed_url |-> << >>, ai_tags |-> << >>, shopify_product_id |-> 0]

\* jsonify({"status": "success", ...})  (status code 200)
SuccessResponse(url, tags, id) ==
    [code |-> 200, status |-> "success", error |-> "",
     processed_url |-> url, ai_tags |-> tags, shopify_product_id |-> id]

\* A variant that masks a publish failure as OK.
PartialResponseMasked(url, tags, msg) ==
    [code |-> 200, status |-> "partial_success", error |-> msg,
     processed_url |-> url, ai_tags |-> tags, shopify_product_id |-> 0]

\* A variant in which a publish failure falls through to the outer handler.
PartialResponseBare(url, tags, msg) ==
    [code |-> 500, status |-> "", error |-> msg,
     processed_url |-> << >>, ai_tags |-> << >>, shopify_product_id |-> 0]

\* jsonify({"status": "partial_success", ...}), 500
PartialResponse(url, tags, msg) ==
    [code |-> 500, status |-> "partial_success", error |-> msg,
     processed_url |-> url, ai_tags |-> tags, shopify_product_id |-> 0]

\* jsonify({"error": msg}), 500
ErrorResponse(msg) ==
    [code |-> 500, status |-> "", error |-> msg,
     processed_url |-> << >>, ai_tags |-> << >>, shopify_product_id |-> 0]

Is2xx(code) == code >= 200 /\ code < 300
Is4xx(code) == code >= 400 /\ code < 500
Is5xx(code) == code >= 500 /\ code < 600

\* A variant of the payload check that forgets the 'name' field.
HasRequiredKeysBucketOnly(d) == "bucket" \in d.keys

\* data['bucket'] and data['name'] both succeed.
HasRequiredKeys(d) == "bucket" \in d.keys /\ "name" \in d.keys

\* ---------------------------------------------------------------- state
VARIABLES
    pc,             \* per run: the stage the run is about to execute
    data,           \* per run: the trigger payload
    bucket_name,    \* per run: local variable
    file_name,      \* per run: local variable
    processed_url,  \* per run: local variable
    ai_tags,        \* per run: local variable
    scratch,        \* local scratch files that exist: <<run, "input"|"output">>
    processed,      \* blob names present in the processed bucket
    listings,       \* listings that exist on the commerce platform
    calls,          \* per run: the calls made so far, with their outcomes
    response,       \* per run: the response returned
    done_before,    \* per run: the runs that had returned when it was triggered
    record_writes,  \* ProcessingRecord writes made, as <<run, key, status>>
    fn_pc,          \* a helper called on its own: "off", "ready" or "done"
    fn_in,          \* its argument
    fn_out          \* its result

fn_vars == <<fn_pc, fn_in, fn_out>>

pipeline_vars ==
    <<pc, data, bucket_name, file_name, processed_url, ai_tags, scratch,
      processed, listings, calls, response, done_before, record_writes>>

vars == <<pipeline_vars, fn_vars>>

\* A variant that gives every upload a fresh object name.
ProcessedBlobNameVersioned(name) ==
    <<"processed_">> \o [i \in 1..Cardinality(processed) |-> "#"] \o name

\* f"processed_{file_name}"
ProcessedBlobName(name) == <<"processed_">> \o name

\* No helper is being called on its own.
FnOff == fn_pc = "off" /\ fn_in = << >> /\ fn_out = << >>

\* The service has started and no request has arrived.
PipelineInit ==
    /\ pc = [r \in Runs |-> "idle"]
    /\ data = [r \in Runs |-> NoData]
    /\ bucket_name = [r \in Runs |-> ""]
    /\ file_name = [r \in Runs |-> Unbound]
    /\ processed_url = [r \in Runs |-> << >>]
    /\ ai_tags = [r \in Runs |-> << >>]
    /\ scratch = {}
    /\ processed = {}
    /\ listings = {}
    /\ calls = [r \in Runs |-> << >>]
    /\ response = [r \in Runs |-> NoResponse]
    /\ done_before = [r \in Runs |-> {}]
    /\ record_writes = {}

Init == PipelineInit /\ FnOff

\* The log of a run's calls: the stage, what was sent, what came back.
Call(r, stage, arg, outcome) ==
    calls' = [calls EXCEPT ![r] =
                Append(@, [stage |-> stage, arg |-> arg, outcome |-> outcome])]

\* return <response> : the run ends.  Nothing is deleted and nothing is
\* recorded on the way out (lines 258-259 are never reached).
Return(r, resp) ==
    /\ response' = [response EXCEPT ![r] = resp]
    /\ pc' = [pc EXCEPT ![r] = "done"]

\* ---------------------------------------------------------------- steps

\* A variant in which the label call is made before the upload.
StageAfterAnalyzeFirst(stage) ==
    IF stage = "download" THEN "watermark"
    ELSE IF stage = "watermark" THEN "analyze"
    ELSE IF stage = "analyze" THEN "upload"
    ELSE IF stage = "upload" THEN "secret"
    ELSE "create"

\* The statement order of process_video (lines 187-230): the stage a run
\* goes on to when a stage succeeded.
StageAfter(stage) ==
    IF stage = "download" THEN "watermark"
    ELSE IF stage = "watermark" THEN "upload"
    ELSE IF stage = "upload" THEN "analyze"
    ELSE IF stage = "analyze" THEN "secret"
    ELSE "create"

\* The request arrives: lines 180-185.  A missing key raises KeyError, which
\* the outer handler turns into the error response.
Trigger(r) ==
    /\ pc[r] = "idle"
    /\ \A r2 \in Runs : r2 < r => pc[r2] # "idle"
    /\ \E d \in Payloads :
        /\ data' = [data EXCEPT ![r] = d]
        /\ done_before' = [done_before EXCEPT ![r] = {r2 \in Runs : pc[r2] = "done"}]
        /\ IF HasRequiredKeys(d)
           THEN /\ bucket_name' = [bucket_name EXCEPT ![r] = d.bucket]
                /\ file_name' = [file_name EXCEPT ![r] = d.name]
                /\ pc' = [pc EXCEPT ![r] = "download"]
                /\ UNCHANGED response
           ELSE /\ Return(r, ErrorResponse("KeyError"))
                /\ UNCHANGED <<bucket_name, file_name>>
    /\ UNCHANGED <<processed_url, ai_tags, scratch, processed, listings,
                   calls, record_writes,
                   fn_vars>>

\* download_video_from_gcs (line 188): the temporary file is created before
\* the download is attempted.
Download(r) ==
    /\ pc[r] = "download"
    /\ \E o \in {"ok", "raise"} :
        /\ Call(r, "download", GcsUri(bucket_name[r], file_name[r]), o)
        /\ scratch' = scratch \cup {<<r, "input">>}
        /\ IF o = "ok"
           THEN /\ pc' = [pc EXCEPT ![r] = StageAfter("download")]
                /\ UNCHANGED response
           ELSE Return(r, ErrorResponse("download failed"))
    /\ UNCHANGED <<data, bucket_name, file_name, processed_url, ai_tags,
                   processed, listings, done_before, record_writes,
                   fn_vars>>

\* Lines 191-193: the output temporary file is created, then add_watermark.
Watermark(r) ==
    /\ pc[r] = "watermark"
    /\ \E o \in WatermarkOutcomes :
        /\ Call(r, "watermark", << >>, o)
        /\ scratch' = scratch \cup {<<r, "output">>}
        /\ LET res == add_watermark(o) IN
           IF res = "True"
           THEN /\ pc' = [pc EXCEPT ![r] = StageAfter("watermark")]
                /\ UNCHANGED response
           ELSE IF res = "False"
           THEN Return(r, ErrorResponse("Watermark addition failed"))
           ELSE Return(r, ErrorResponse("watermark raised"))
    /\ UNCHANGED <<data, bucket_name, file_name, processed_url, ai_tags,
                   processed, listings, done_before, record_writes,
                   fn_vars>>

\* Lines 196-197, upload_to_gcs: upload_from_filename, then make_public.
Upload(r) ==
    /\ pc[r] = "upload"
    /\ \E o \in {"ok", "upload_raise", "make_public_raise"} :
        LET processed_blob_name == ProcessedBlobName(file_name[r]) IN
        /\ Call(r, "upload", processed_blob_name, o)
        /\ processed' = IF o = "upload_raise" THEN processed
                        ELSE processed \cup {processed_blob_name}
        /\ IF o = "ok"
           THEN /\ processed_url' =
                      [processed_url EXCEPT ![r] = PublicUrl(processed_blob_name)]
                /\ pc' = [pc EXCEPT ![r] = StageAfter("upload")]
                /\ UNCHANGED response
           ELSE /\ Return(r, ErrorResponse("upload failed"))
                /\ UNCHANGED processed_url
    /\ UNCHANGED <<data, bucket_name, file_name, ai_tags, scratch,
                   listings, done_before, record_writes,
                   fn_vars>>

\* Lines 200-201: analyze_video_with_ai on the original object.
Analyze(r) ==
    /\ pc[r] = "analyze"
    /\ \E res \in LabelResults :
        LET out == analyze_video_with_ai(res) IN
        /\ Call(r, "analyze", GcsUri(bucket_name[r], file_name[r]), res.kind)
        /\ IF out.raised
           THEN /\ Return(r, ErrorResponse("analysis raised"))
                /\ UNCHANGED ai_tags
           ELSE /\ ai_tags' = [ai_tags EXCEPT ![r] = out.tags]
                /\ pc' = [pc EXCEPT ![r] = StageAfter("analyze")]
                /\ UNCHANGED response
    /\ UNCHANGED <<data, bucket_name, file_name, processed_url, scratch,
                   processed, listings, done_before, record_writes,
                   fn_vars>>

\* Line 205: get_shopify_access_token re-raises whatever fails; the inner
\* handler (lines 248-255) answers partial_success.
GetToken(r) ==
    /\ pc[r] = "secret"
    /\ \E o \in {"ok", "raise"} :
        /\ Call(r, "secret", << >>, o)
        /\ IF o = "ok"
           THEN /\ pc' = [pc EXCEPT ![r] = StageAfter("secret")]
                /\ UNCHANGED response
           ELSE Return(r, PartialResponse(processed_url[r], ai_tags[r],
                                          "Shopify integration failed"))
    /\ UNCHANGED <<data, bucket_name, file_name, processed_url, ai_tags,
                   scratch, processed, listings, done_before, record_writes,
                   fn_vars>>

\* The id the platform gives the listing it creates for a run's request:
\* one fresh id per request.
ListingId(r) == r

\* Lines 210-228: the product payload.
ProductPayload(r) ==
    [title |-> Title(file_name[r]),
     tags |-> JoinTags(ai_tags[r]),
     processed_url |-> processed_url[r],
     original_filename |-> file_name[r]]

\* Lines 230-246: one POST to the platform, then the response.
CreateProduct(r) ==
    /\ pc[r] = "create"
    /\ \E o \in CreateOutcomes :
        /\ Call(r, "create", ProductPayload(r), o)
        /\ IF o.applied
           THEN listings' = listings \cup
                    {[id |-> ListingId(r), payload |-> ProductPayload(r)]}
           ELSE UNCHANGED listings
        /\ IF create_product(o) = "product"
           THEN Return(r, SuccessResponse(processed_url[r], ai_tags[r],
                                       ListingId(r)))
           ELSE Return(r, PartialResponse(processed_url[r], ai_tags[r],
                                          "Shopify product creation failed"))
    /\ UNCHANGED <<data, bucket_name, file_name, processed_url, ai_tags,
                   scratch, processed, done_before, record_writes,
                   fn_vars>>

Next ==
    \E r \in Runs :
        \/ Trigger(r)
        \/ Download(r)
        \/ Watermark(r)
        \/ Upload(r)
        \/ Analyze(r)
        \/ GetToken(r)
        \/ CreateProduct(r)

Spec == Init /\ [][Next]_vars

\* ------------------------------------------------------------- helpers
Called(r, stage) == \E i \in 1..Len(calls[r]) : calls[r][i].stage = stage

CallOf(r, stage) ==
    calls[r][CHOOSE j \in 1..Len(calls[r]) : calls[r][j].stage = stage]

OutcomeOf(r, stage) == CallOf(r, stage).outcome

CountCalls(r, stage) ==
    Cardinality({ i \in 1..Len(calls[r]) : calls[r][i].stage = stage })

ListingsFor(name) == { l \in listings : l.payload.original_filename = name }

ListingOf(r) == { l \in listings : l.id = ListingId(r) }

\* The payload lacks 'bucket' or 'name'.
Malformed(r) == pc[r] # "idle" /\ data[r].keys # {"bucket", "name"}

WellFormed(r) == pc[r] # "idle" /\ data[r].keys = {"bucket", "name"}

\* ----------------------------------------------------------------- C1
\* C1: a run for a key that is triggered after a run for the same key has
\* returned success sends no create-listing request, and one listing exists
\* for the key.
C1_SequentialIdempotency ==
    \A r1 \in Runs : \A r2 \in Runs :
        ( /\ r1 \in done_before[r2]
          /\ response[r1].status = "success"
          /\ WellFormed(r2)
          /\ file_name[r2] = file_name[r1] )
        => /\ ~Called(r2, "create")
           /\ Cardinality(ListingsFor(file_name[r1])) = 1

\* ----------------------------------------------------------------- C2
\* C2: of two runs for the same file name that are in flight at the same
\* time, at most one sends a create-listing request, and at most one
\* listing exists for the name.
Concurrent(r1, r2) ==
    /\ r1 < r2
    /\ pc[r2] # "idle"
    /\ r1 \notin done_before[r2]

C2_ConcurrentIdempotency ==
    \A r1 \in Runs : \A r2 \in Runs :
        ( /\ Concurrent(r1, r2)
          /\ WellFormed(r1) /\ WellFormed(r2)
          /\ file_name[r1] = file_name[r2] )
        => /\ ~(Called(r1, "create") /\ Called(r2, "create"))
           /\ Cardinality(ListingsFor(file_name[r1])) <= 1

\* ----------------------------------------------------------------- C3
\* C3: a run whose payload lacks 'bucket' or 'name' has returned without
\* making any call (download, watermark, upload, label detection, secret
\* fetch, create) and without creating a scratch file or a listing.
C3_MalformedRejectedBeforeWork ==
    \A r \in Runs :
        Malformed(r) =>
            /\ pc[r] = "done"
            /\ calls[r] = << >>
            /\ ~(\E f \in scratch : f[1] = r)
            /\ ListingOf(r) = {}

C3_Witness ==
    \E r \in Runs :
        /\ pc[r] = "done"
        /\ data[r].keys = {"bucket"}
        /\ response[r] # NoResponse

\* ----------------------------------------------------------------- C4
\* C4: the response to a payload that lacks 'bucket' or 'name' has a 4xx
\* status code (and so differs from the 5xx of a pipeline failure).
C4_MalformedIsClientError ==
    \A r \in Runs :
        (Malformed(r) /\ pc[r] = "done") => Is4xx(response[r].code)

\* ----------------------------------------------------------------- C5
\* C5: when a run has returned, none of the scratch files it created exists.
C5_ScratchReleased ==
    \A r \in Runs :
        pc[r] = "done" => ~(\E f \in scratch : f[1] = r)

\* ----------------------------------------------------------------- C6
\* C6: when the label call failed (raised or timed out),
\* the run's tags are the fallback tags, the run went on to the secret
\* fetch, any create request it sent carries the fallback tags, and if the
\* create call returned a product the run answered success (2xx) with the
\* fallback tags.
LabelFailed(r) == Called(r, "analyze") /\ OutcomeOf(r, "analyze") # "ok"

Created201(o) == o.kind = "status" /\ o.code = 201

C6_FallbackEnrichment ==
    \A r \in Runs :
        LabelFailed(r) =>
            /\ ai_tags[r] = FallbackTags
            /\ pc[r] \in {"secret", "create", "done"}
            /\ pc[r] \in {"create", "done"} => Called(r, "secret")
            /\ Called(r, "create") =>
                   CallOf(r, "create").arg.tags = JoinTags(FallbackTags)
            /\ (Called(r, "create") /\ Created201(OutcomeOf(r, "create"))) =>
                   /\ response[r].status = "success"
                   /\ Is2xx(response[r].code)
                   /\ response[r].ai_tags = FallbackTags

C6_Witness ==
    \E r \in Runs :
        /\ Called(r, "analyze") /\ OutcomeOf(r, "analyze") = "timeout"
        /\ Called(r, "create") /\ Created201(OutcomeOf(r, "create"))
        /\ response[r].status = "success"

\* ----------------------------------------------------------------- C7
\* C7: when add_watermark failed (ffmpeg exited non-zero, or anything else
\* went wrong), the run has returned a 5xx response and made no upload,
\* label-detection, secret-fetch or create call.
WatermarkFailed(r) == Called(r, "watermark") /\ OutcomeOf(r, "watermark") # "ok"

C7_WatermarkFailureFatal ==
    \A r \in Runs :
        WatermarkFailed(r) =>
            /\ pc[r] = "done"
            /\ Is5xx(response[r].code)
            /\ response[r].status # "success"
            /\ \A s \in {"upload", "analyze", "secret", "create"} : ~Called(r, s)
            /\ ListingOf(r) = {}

C7_Witness ==
    \E r \in Runs :
        /\ Called(r, "watermark")
        /\ OutcomeOf(r, "watermark") = "called_process_error"
        /\ pc[r] = "done"

\* ----------------------------------------------------------------- C8
\* C8: a run that reports partial_success created a listing; a run that
\* created no listing does not report partial_success.
C8_PartialSuccessMeansListing ==
    \A r \in Runs :
        response[r].status = "partial_success" => ListingOf(r) # {}

\* ----------------------------------------------------------------- C9
\* C9: a run that has returned (success, partial success or failure) has
\* made exactly one terminal ProcessingRecord write for its source key.
TerminalWrites(r) ==
    { w \in record_writes : w[1] = r /\ w[2] = file_name[r] }

C9_TerminalRecordWritten ==
    \A r \in Runs :
        (WellFormed(r) /\ pc[r] = "done") => Cardinality(TerminalWrites(r)) = 1

\* ---------------------------------------------------------------- C10
\* C10: a run that has returned answered 2xx if and only if download,
\* watermark, upload, secret fetch and create all succeeded (create with a
\* created product); every other run answered 5xx.
StageOk(r, s) == Called(r, s) /\ OutcomeOf(r, s) = "ok"

AllStagesSucceeded(r) ==
    /\ \A s \in {"download", "watermark", "upload", "secret"} : StageOk(r, s)
    /\ Called(r, "create") /\ Created201(OutcomeOf(r, "create"))

C10_ResponseContract ==
    \A r \in Runs :
        pc[r] = "done" =>
            /\ Is2xx(response[r].code) <=> AllStagesSucceeded(r)
            /\ ~AllStagesSucceeded(r) => Is5xx(response[r].code)

C10_Witness ==
    \E r1 \in Runs : \E r2 \in Runs :
        /\ pc[r1] = "done" /\ AllStagesSucceeded(r1) /\ Is2xx(response[r1].code)
        /\ pc[r2] = "done" /\ Called(r2, "create")
        /\ ~Created201(OutcomeOf(r2, "create")) /\ Is5xx(response[r2].code)

\* ---------------------------------------------------------------- C12
\* C12: the title sent in a create request is determined by the file name,
\* and two runs with different file names send different titles.
TitleOf(r) == CallOf(r, "create").arg.title

C12_TitleDeterministicInjective ==
    \A r1 \in Runs : \A r2 \in Runs :
        (Called(r1, "create") /\ Called(r2, "create")) =>
            (file_name[r1] = file_name[r2] <=> TitleOf(r1) = TitleOf(r2))

\* ---------------------------------------------------------------- C13
\* C13: a run sends at most one create request; it reports the created
\* product only when the platform answered 201; after any other status or a
\* request exception it has returned without a product and without a second
\* request.
C13_CreateOnceOnly201 ==
    \A r \in Runs :
        /\ CountCalls(r, "create") <= 1
        /\ response[r].status = "success" =>
              Called(r, "create") /\ Created201(OutcomeOf(r, "create"))
        /\ (Called(r, "create") /\ ~Created201(OutcomeOf(r, "create"))) =>
              /\ pc[r] = "done"
              /\ response[r].status # "success"
              /\ response[r].shopify_product_id = 0

C13_Witness ==
    \E r1 \in Runs : \E r2 \in Runs :
        /\ Called(r1, "create") /\ OutcomeOf(r1, "create").code = 200
        /\ response[r1].status = "partial_success"
        /\ Called(r2, "create") /\ OutcomeOf(r2, "create").kind = "exception"
        /\ pc[r2] = "done"

\* ---------------------------------------------------------------- C16
\* C16: the calls of a run are an initial part of the sequence download,
\* watermark, upload, label detection, secret fetch, create (so no stage is
\* repeated or taken out of order), and a create request is sent only after
\* download, watermark and upload succeeded and the label stage returned.
StageOrder == <<"download", "watermark", "upload", "analyze", "secret", "create">>

C16_FixedStageOrder ==
    \A r \in Runs :
        /\ Len(calls[r]) <= Len(StageOrder)
        /\ \A i \in 1..Len(calls[r]) : calls[r][i].stage = StageOrder[i]
        /\ Called(r, "create") =>
              /\ \A st \in {"download", "watermark", "upload"} :
                    Called(r, st) /\ OutcomeOf(r, st) = "ok"
              /\ Called(r, "analyze")

C16_Witness ==
    \E r \in Runs :
        /\ Len(calls[r]) = Len(StageOrder)
        /\ pc[r] = "done"

\* ---------------------------------------------------------------- C17
\* C17: when the secret fetch raised or the create call returned no
\* product, the run sent no create request after a failed secret fetch,
\* answered partial_success with a 5xx code, the processed URL and the tags,
\* and the processed video it uploaded is in the processed bucket.
SecretFailed(r) == Called(r, "secret") /\ OutcomeOf(r, "secret") = "raise"

CreateFailed(r) == Called(r, "create") /\ ~Created201(OutcomeOf(r, "create"))

C17_NoRollbackOnPublishFailure ==
    \A r \in Runs :
        (SecretFailed(r) \/ CreateFailed(r)) =>
            /\ pc[r] = "done"
            /\ SecretFailed(r) => ~Called(r, "create")
            /\ response[r].status = "partial_success"
            /\ Is5xx(response[r].code)
            /\ response[r].processed_url = PublicUrl(CallOf(r, "upload").arg)
            /\ response[r].ai_tags = ai_tags[r]
            /\ CallOf(r, "upload").arg \in processed

C17_Witness ==
    \E r1 \in Runs : \E r2 \in Runs :
        /\ SecretFailed(r1) /\ pc[r1] = "done"
        /\ CreateFailed(r2) /\ pc[r2] = "done"

\* ---------------------------------------------------------------- C18
\* C18: the processed bucket holds at most one object uploaded for a given
\* source key, however many runs uploaded for that key and however many
\* listings exist; the object's name is processed_<name>.
UploadedFor(name) ==
    { b \in processed :
        \E r \in Runs :
            /\ WellFormed(r) /\ file_name[r] = name
            /\ Called(r, "upload") /\ OutcomeOf(r, "upload") # "upload_raise"
            /\ CallOf(r, "upload").arg = b }

C18_OneProcessedObjectPerKey ==
    \A name \in FileNames :
        /\ Cardinality(UploadedFor(name)) <= 1
        /\ UploadedFor(name) \subseteq { <<"processed_">> \o name }

C18_Witness ==
    \E r1 \in Runs : \E r2 \in Runs :
        /\ r1 # r2
        /\ file_name[r1] = file_name[r2]
        /\ Called(r1, "upload") /\ OutcomeOf(r1, "upload") = "ok"
        /\ Called(r2, "upload") /\ OutcomeOf(r2, "upload") = "ok"
        /\ Cardinality(ListingsFor(file_name[r1])) = 2
        /\ Cardinality(UploadedFor(file_name[r1])) = 1

\* ---------------------------------------------------------------- C15
\* C15: the outcome returned by a run whose tags are the fallback because
\* the label call failed differs from the outcome of a run whose label call
\* succeeded with the same tags.
LabelSucceeded(r) == Called(r, "analyze") /\ OutcomeOf(r, "analyze") = "ok"

\* What the response tells about the run, the listing id left aside.
ReturnedOutcome(r) ==
    [code |-> response[r].code, status |-> response[r].status,
     error |-> response[r].error, ai_tags |-> response[r].ai_tags]

C15_DegradedEnrichmentVisible ==
    \A r1 \in Runs : \A r2 \in Runs :
        ( /\ pc[r1] = "done" /\ pc[r2] = "done"
          /\ LabelFailed(r1) /\ LabelSucceeded(r2)
          /\ ai_tags[r1] = ai_tags[r2] )
        => ReturnedOutcome(r1) # ReturnedOutcome(r2)

\* =================================================== analyze_video_with_ai
\* analyze_video_with_ai called on its own, on label lists long enough to
\* hold more than TagLimit distinct descriptions.

\* Label descriptions, listed in lexicographic order.
LabelNames ==
    <<"ant", "bee", "cat", "dog", "eel", "fox", "gnu", "hen", "jay", "koi",
      "lynx", "mole">>

NumLabels == Len(LabelNames)

Strides == {0, 1, 5, 6}

\* The label list that starts at one description and steps through
\* LabelNames cyclically.
CyclicLabels(start, stride, len) ==
    [i \in 1..len |-> LabelNames[((start + (i - 1) * stride) % NumLabels) + 1]]

RECURSIVE SeqsUpTo(_, _)
SeqsUpTo(S, n) ==
    IF n = 0 THEN { << >> }
    ELSE LET shorter == SeqsUpTo(S, n - 1)
         IN shorter \cup { Append(q, x) : q \in shorter, x \in S }

TagInputs ==
    { CyclicLabels(start, stride, len) :
        start \in 0..(NumLabels - 1), stride \in Strides, len \in 0..MaxLabelLen }
    \cup SeqsUpTo({"cat", "dog"}, 3)

TagResults ==
    { [kind |-> "ok", labels |-> l] : l \in TagInputs }
    \cup { [kind |-> k, labels |-> << >>] : k \in {"raise", "timeout", "empty"} }

TagsInit ==
    /\ PipelineInit
    /\ fn_pc = "ready"
    /\ fn_in \in TagResults
    /\ fn_out = << >>

AnalyzeCall ==
    /\ fn_pc = "ready"
    /\ fn_out' = analyze_video_with_ai(fn_in)
    /\ fn_pc' = "done"
    /\ UNCHANGED <<fn_in, pipeline_vars>>

TagsNext == AnalyzeCall

SpecTags == TagsInit /\ [][TagsNext]_vars

\* ---------------------------------------------------------------- C11
\* C11: the tag list returned for a list of label descriptions is the
\* lexicographically sorted list of the distinct descriptions (so it does
\* not depend on the order or on repetitions in the input).
SortedLabels(S) == SelectSeq(LabelNames, LAMBDA l : l \in S)

C11_TagsSortedDeduplicated ==
    (fn_pc = "done" /\ fn_in.kind = "ok") =>
        fn_out.tags = SortedLabels(Range(fn_in.labels))

\* ---------------------------------------------------------------- C19
\* C19: the returned list has no duplicates and at most 10 entries, and it
\* is the first 10 distinct descriptions in order of first occurrence; when
\* the labelling call raised, timed out or gave no annotation results, the
\* fallback list is returned; nothing is raised in either case.
FirstOccurrences(labels) ==
    { p \in 1..Len(labels) : \A q \in 1..(p - 1) : labels[q] # labels[p] }

C19_TagListShape ==
    fn_pc = "done" =>
        /\ ~fn_out.raised
        /\ fn_in.kind = "ok" =>
              LET D == FirstOccurrences(fn_in.labels)
                  out == fn_out.tags
              IN /\ Len(out) = (IF Cardinality(D) < 10 THEN Cardinality(D) ELSE 10)
                 /\ \A i \in 1..Len(out) : \A j \in 1..Len(out) :
                        i # j => out[i] # out[j]
                 /\ \A i \in 1..Len(out) :
                        \E p \in D :
                            /\ fn_in.labels[p] = out[i]
                            /\ Cardinality({ q \in D : q < p }) = i - 1
        /\ fn_in.kind # "ok" => fn_out.tags = FallbackTags

C19_Witness ==
    /\ fn_pc = "done"
    /\ fn_in.kind = "ok"
    /\ Cardinality(Range(fn_in.labels)) > 10
    /\ Len(fn_in.labels) > Cardinality(Range(fn_in.labels))
    /\ Len(fn_out.tags) = 10

\* ================================================ get_shopify_access_token
\* get_shopify_access_token called on its own.  A secret is a sequence of
\* characters, one of each class the cleaning steps tell apart:
\*   "BOM" U+FEFF;  "SP" a space (whitespace, not a control character);
\*   "LF" a line feed (whitespace and control character);
\*   "NUL" U+0000 (control character, not whitespace);  "x" anything else.
TokenChars == {"BOM", "SP", "LF", "NUL", "x"}

\* str.isspace, as str.strip() uses it
IsSpace(c) == c \in {"SP", "LF"}

\* the class [\x00-\x1f\x7f-\x9f] of line 52
IsControl(c) == c \in {"LF", "NUL"}

\* str.strip()
RECURSIVE LStrip(_)
LStrip(t) == IF t # << >> /\ IsSpace(t[1]) THEN LStrip(Tail(t)) ELSE t

RECURSIVE RStrip(_)
RStrip(t) ==
    IF t # << >> /\ IsSpace(t[Len(t)]) THEN RStrip(SubSeq(t, 1, Len(t) - 1)) ELSE t

Strip(t) == RStrip(LStrip(t))

\* Lines 43-52: drop one leading BOM, strip, drop line breaks and tabs, drop
\* control characters.
CleanToken(text) ==
    LET t1 == IF text # << >> /\ text[1] = "BOM" THEN Tail(text) ELSE text
        t2 == Strip(t1)
        t3 == SelectSeq(t2, LAMBDA c : c # "LF")
    IN SelectSeq(t3, LAMBDA c : ~IsControl(c))

\* get_shopify_access_token: a payload that is not UTF-8 makes decode raise,
\* and the function re-raises.
get_shopify_access_token(payload) ==
    IF payload.decodes
    THEN [raised |-> FALSE, token |-> CleanToken(payload.text)]
    ELSE [raised |-> TRUE, token |-> << >>]

SecretPayloads ==
    { [decodes |-> TRUE, text |-> t] : t \in SeqsUpTo(TokenChars, MaxTokenLen) }
    \cup { [decodes |-> FALSE, text |-> << >>] }

TokenInit ==
    /\ PipelineInit
    /\ fn_pc = "ready"
    /\ fn_in \in SecretPayloads
    /\ fn_out = << >>

TokenCall ==
    /\ fn_pc = "ready"
    /\ fn_out' = get_shopify_access_token(fn_in)
    /\ fn_pc' = "done"
    /\ UNCHANGED <<fn_in, pipeline_vars>>

TokenNext == TokenCall

SpecToken == TokenInit /\ [][TokenNext]_vars

\* ---------------------------------------------------------------- C14
\* C14: the token returned for a decoded payload does not start with a
\* byte-order mark, has no whitespace at either end and no control
\* character anywhere, and cleaning it again gives the same token.
C14_TokenNormalized ==
    (fn_pc = "done" /\ ~fn_out.raised) =>
        LET t == fn_out.token IN
        /\ t # << >> => t[1] # "BOM"
        /\ t # << >> => ~IsSpace(t[1]) /\ ~IsSpace(t[Len(t)])
        /\ \A i \in 1..Len(t) : ~IsControl(t[i])
        /\ get_shopify_access_token([decodes |-> TRUE, text |-> t]).token = t

====
